---- MODULE Spec2Model ----
(***************************************************************************)
(* Model of the port-tracker scrapers: the command line entry point, the   *)
(* monthly pipeline (resolve URL, download, parse workbook, save JSON) and *)
(* the daily movements scraper.                                            *)
(*                                                                         *)
(* A cell of a sheet is a string.  NaN stands for an empty cell as         *)
(* pandas.read_excel(header=None) delivers it.  A DataFrame is a record    *)
(* [columns, index, rows]: the column labels, the row labels, and one      *)
(* tuple of cells per row.  A Python dict is a sequence of [key, value]    *)
(* records in insertion order.                                             *)
(***************************************************************************)
EXTENDS Integers, Sequences, FiniteSets, TLC

VARIABLES
    pc,             \* position of the running program
    command,        \* args.command as parsed by argparse
    exitCode,       \* the value main returned: {} while it runs, then {code}
    error,          \* the exception that ended the subcommand, NoError if none
    excel_url,      \* run_monthly_scraper: excel_url
    xlsx_data,      \* run_monthly_scraper: xlsx_data, the downloaded file
    response,       \* the latest answer to spoof_get: [url, ok, link]
    spreadsheet,    \* TODExcelWorkbook.spreadsheet: [sheets, main]
    section_ranges, \* _parse_all_sections: section_ranges (dict name -> range)
    nextSection,    \* _parse_all_sections: position of the for loop
    sections,       \* _parse_all_sections: sections (dict name -> DataFrame)
    subsheets,      \* TODExcelWorkbook.subsheets: [assigned, value]
    createdDir,     \* os.makedirs(output_path) was called
    files,          \* files written below output_path: dict filename -> content
    page,           \* daily scraper: the parsed movements table
    movements,      \* daily scraper: movements yielded so far
    printed         \* lines printed to standard output by the cli

vars == <<pc, command, exitCode, error, excel_url, xlsx_data, response, spreadsheet,
          section_ranges, nextSection, sections, subsheets, createdDir,
          files, page, movements, printed>>

----------------------------------------------------------------------------
(* Bounds of the model *)

\* most columns of a sheet in the pipeline
MaxCols == 2
\* most data rows below the column-header row
MaxDataRows == 1
\* most columns of a sheet when only the section header row is explored
MaxHdrCols == 4
\* most body rows of the daily movements table
MaxDailyRows == 2

----------------------------------------------------------------------------
(* Program constants *)

HEADER_ROW == 2
DATA_START_ROW == 3
MAIN_SHEET == "Port of Newcastle"
DATE_COLUMN == "Month"
SHEET_NAMES == <<"Readme", "Notes&Methods", "Port of Newcastle">>
MONTHLY_DATA_PORTAL_URL == "https://www.transport.nsw.gov.au/data-and-research/freight-data/port-of-newcastle"
MONTHLY_DATA_EXCEL_URL == "https://opendata.transport.nsw.gov.au/data/dataset/5da0e3b9-e46a-4aa3-96c9-2574d83fe6fb/resource/3c5c9d89-ce54-4f72-9550-4077b7540612/download/port-of-newcastle.xlsx"
DAILY_VESSEL_MOVEMENTS_URL == "https://www.portauthoritynsw.com.au/port-operations/newcastle-harbour/newcastle-harbour-daily-vessel-movements"

NoValue == "<none>"
NoError == [type |-> "<none>", msg |-> <<>>]

----------------------------------------------------------------------------
(* Cells and sheets *)

NaN == "<NaN>"
NaT == "<NaT>"

\* section names found in the section header row (row HEADER_ROW)
SectionNames == {"Vessel Visits", "vessel_visits"}
HeaderCells == SectionNames \cup {NaN}

\* labels found in the column header row (row DATA_START_ROW)
ColumnLabels == {"Month", "Year", "Coal"}

\* texts found in a date column: a date, an invalid calendar date, empty
DateCells == {"2023-01-31 00:00:00", "2023-02-30 00:00:00", NaN}

\* the cell below a label that is no date column (passed through untouched)
PlainCell(label) == IF label = "Year" THEN "2023" ELSE "1500.5"

Range(s) == {s[i] : i \in DOMAIN s}

\* the sequence lo, lo+1, ..., hi-1 (Python range(lo, hi))
RECURSIVE PyRange(_, _)
PyRange(lo, hi) == IF lo >= hi THEN <<>> ELSE <<lo>> \o PyRange(lo + 1, hi)

\* the sheets with n rows and c columns: rows 0 and 1 are title rows, row 2
\* holds the section names, row 3 the column labels, the rest the data
Sheet(n, c, hdr, labels, data) ==
    [nrows |-> n, ncols |-> c,
     cells |-> [r \in 0 .. n - 1 |->
                  IF r < HEADER_ROW THEN [j \in 0 .. c - 1 |-> NaN]
                  ELSE IF r = HEADER_ROW THEN hdr
                  ELSE IF r = DATA_START_ROW THEN labels
                  ELSE data[r - DATA_START_ROW]]]

\* the data rows under the labels: a date cell under the date column, the
\* plain cell under every other label
CellsUnder(label) == IF label = DATE_COLUMN THEN DateCells ELSE {PlainCell(label)}

DataRows(c, k, labels) ==
    [1 .. k -> {row \in [0 .. c - 1 -> DateCells \cup {"2023", "1500.5"}] :
                   \A j \in 0 .. c - 1 : row[j] \in CellsUnder(labels[j])}]

----------------------------------------------------------------------------
(* Python dict: a sequence of [key, value] in insertion order *)

DictKeys(d) == {d[i].key : i \in DOMAIN d}
DictHas(d, k) == k \in DictKeys(d)
DictGet(d, k) == d[CHOOSE i \in DOMAIN d : d[i].key = k].value

\* d[k] = v: a new key is appended, a present key keeps its place
DictSet(d, k, v) ==
    IF DictHas(d, k)
    THEN [i \in DOMAIN d |-> IF d[i].key = k THEN [key |-> k, value |-> v] ELSE d[i]]
    ELSE Append(d, [key |-> k, value |-> v])

----------------------------------------------------------------------------
(* pandas operations used by the workbook parser *)

\* Series.dropna() of one row: the positions of its non-empty cells, ascending
RECURSIVE NotNaPositions(_, _, _)
NotNaPositions(row, j, n) ==
    IF j >= n THEN <<>>
    ELSE (IF row[j] # NaN THEN <<j>> ELSE <<>>) \o NotNaPositions(row, j + 1, n)

\* sheet.iloc[r0:, cols]
ILoc(sheet, r0, cols) ==
    LET k == IF sheet.nrows > r0 THEN sheet.nrows - r0 ELSE 0
    IN [columns |-> cols,
        index   |-> PyRange(r0, r0 + k),
        rows    |-> [i \in 1 .. k |->
                        [j \in 1 .. Len(cols) |-> sheet.cells[r0 + i - 1][cols[j]]]]]

\* the positions j, j+1, ... of labels that carry the label (want = TRUE)
\* or do not carry it (want = FALSE), ascending
RECURSIVE LabelPositions(_, _, _, _)
LabelPositions(labels, label, want, j) ==
    IF j > Len(labels) THEN <<>>
    ELSE (IF (labels[j] = label) = want THEN <<j>> ELSE <<>>)
         \o LabelPositions(labels, label, want, j + 1)

\* only the first column carrying the label goes
DropColumns_firstOnly(df, label) ==
    LET first == LabelPositions(df.columns, label, TRUE, 1)[1]
        keep  == [j \in 1 .. Len(df.columns) - 1 |-> IF j < first THEN j ELSE j + 1]
    IN [columns |-> [j \in 1 .. Len(keep) |-> df.columns[keep[j]]],
        index   |-> df.index,
        rows    |-> [i \in DOMAIN df.rows |->
                        [j \in 1 .. Len(keep) |-> df.rows[i][keep[j]]]]]

\* df.drop(columns=[label]): every column carrying the label goes
DropColumns(df, label) ==
    LET keep == LabelPositions(df.columns, label, FALSE, 1)
    IN [columns |-> [j \in 1 .. Len(keep) |-> df.columns[keep[j]]],
        index   |-> df.index,
        rows    |-> [i \in DOMAIN df.rows |->
                        [j \in 1 .. Len(keep) |-> df.rows[i][keep[j]]]]]

\* df.sort_index(): rows in ascending order of their label (stable)
RECURSIVE SortedInsert(_, _)
SortedInsert(sorted, p) ==
    IF sorted = <<>> THEN <<p>>
    ELSE IF sorted[Len(sorted)][1] <= p[1] THEN Append(sorted, p)
    ELSE Append(SortedInsert(SubSeq(sorted, 1, Len(sorted) - 1), p), sorted[Len(sorted)])

RECURSIVE SortPairs(_, _)
SortPairs(pairs, n) ==
    IF n = 0 THEN <<>> ELSE SortedInsert(SortPairs(pairs, n - 1), pairs[n])

SortIndex(df) ==
    LET pairs  == [i \in DOMAIN df.index |-> <<df.index[i], df.rows[i]>>]
        sorted == SortPairs(pairs, Len(pairs))
    IN [columns |-> df.columns,
        index   |-> [i \in DOMAIN sorted |-> sorted[i][1]],
        rows    |-> [i \in DOMAIN sorted |-> sorted[i][2]]]

\* the fields "%Y-%m-%d %H:%M:%S" reads out of a text, <<>> if it does not match
StrpFields(text) ==
    CASE text = "2023-01-31 00:00:00" -> <<2023, 1, 31, 0, 0, 0>>
      [] text = "2023-02-30 00:00:00" -> <<2023, 2, 30, 0, 0, 0>>
      [] OTHER -> <<>>

IsLeap(y) == (y % 4 = 0 /\ y % 100 # 0) \/ y % 400 = 0
DaysInMonth(y, m) ==
    IF m = 2 THEN (IF IsLeap(y) THEN 29 ELSE 28)
    ELSE IF m \in {4, 6, 9, 11} THEN 30 ELSE 31

\* the text names a moment of the calendar
ParsesAsDate(text) ==
    LET f == StrpFields(text)
    IN /\ f # <<>>
       /\ f[2] \in 1 .. 12
       /\ f[3] \in 1 .. DaysInMonth(f[1], f[2])
       /\ f[4] \in 0 .. 23 /\ f[5] \in 0 .. 59 /\ f[6] \in 0 .. 59

\* the Timestamp of a text that parses
Timestamp(text) ==
    CASE StrpFields(text) = <<2023, 1, 31, 0, 0, 0>> -> "Timestamp('2023-01-31 00:00:00')"
      [] OTHER -> NoValue

IsTimestamp(v) == v \in {"Timestamp('2023-01-31 00:00:00')"}

\* pd.to_datetime(series, format="%Y-%m-%d %H:%M:%S") on one value: an
\* empty cell becomes NaT, a text is parsed, anything else raises
ValueToDatetime(v) ==
    IF v = NaN THEN [ok |-> TRUE, value |-> NaT]
    ELSE IF ParsesAsDate(v) THEN [ok |-> TRUE, value |-> Timestamp(v)]
    ELSE [ok |-> FALSE, value |-> v]

ValueError(parts) == [type |-> "ValueError", msg |-> parts]

\* pd.to_datetime(df["Date"], format=...): df["Date"] is a Series when one
\* column carries the label and a DataFrame when several do; a DataFrame
\* with duplicate keys cannot be assembled
ToDatetime(df, label) ==
    LET at   == LabelPositions(df.columns, label, TRUE, 1)
        conv == [i \in DOMAIN df.rows |-> ValueToDatetime(df.rows[i][at[1]])]
        bad  == {i \in DOMAIN df.rows : ~conv[i].ok}
    IN IF Len(at) > 1
       THEN [ok |-> FALSE, df |-> df,
             err |-> ValueError(<<"cannot assemble with duplicate keys">>)]
       ELSE IF bad # {}
       THEN [ok |-> FALSE, df |-> df,
             err |-> ValueError(<<"time data doesn't match format: ",
                                  conv[CHOOSE i \in bad : \A k \in bad : i <= k].value>>)]
       ELSE [ok |-> TRUE,
             df |-> [df EXCEPT !.rows =
                        [i \in DOMAIN df.rows |->
                            [df.rows[i] EXCEPT ![at[1]] = conv[i].value]]],
             err |-> NoError]

----------------------------------------------------------------------------
(* TODExcelWorkbook *)

EmptyFrame == [columns |-> <<>>, index |-> <<>>, rows |-> <<>>]

\* the validation without its last check, the one of the header cells
validate_excel_structure_noHeaderCheck(book) ==
    IF MAIN_SHEET \notin book.sheets
    THEN <<"Missing required sheet: ", MAIN_SHEET>>
    ELSE IF book.main.nrows <= DATA_START_ROW
    THEN <<"Sheet has insufficient rows, expected at least ", "4">>
    ELSE IF book.main.nrows <= HEADER_ROW
    THEN <<"Missing header row at position ", "2">>
    ELSE <<>>

\* the validation with the check of the header row before the row count
validate_excel_structure_headerRowFirst(book) ==
    IF MAIN_SHEET \notin book.sheets
    THEN <<"Missing required sheet: ", MAIN_SHEET>>
    ELSE IF book.main.nrows <= HEADER_ROW
    THEN <<"Missing header row at position ", "2">>
    ELSE IF book.main.nrows <= DATA_START_ROW
    THEN <<"Sheet has insufficient rows, expected at least ", "4">>
    ELSE IF NotNaPositions(book.main.cells[HEADER_ROW], 0, book.main.ncols) = <<>>
    THEN <<"No section headers found in row ", "2">>
    ELSE <<>>

\* _validate_excel_structure: the cause of the rejection, <<>> if there is none
validate_excel_structure(book) ==
    IF MAIN_SHEET \notin book.sheets
    THEN <<"Missing required sheet: ", MAIN_SHEET>>
    ELSE IF book.main.nrows <= DATA_START_ROW
    THEN <<"Sheet has insufficient rows, expected at least ", "4">>
    ELSE IF book.main.nrows <= HEADER_ROW
    THEN <<"Missing header row at position ", "2">>
    ELSE IF NotNaPositions(book.main.cells[HEADER_ROW], 0, book.main.ncols) = <<>>
    THEN <<"No section headers found in row ", "2">>
    ELSE <<>>

\* end_col one column too far: the header cell of the next section included
SectionEnd_inclusive(main_sheet, header_positions, i) ==
    IF i + 1 <= Len(header_positions)
    THEN header_positions[i + 1] + 1
    ELSE main_sheet.ncols

\* _find_section_ranges: end_col of header i
SectionEnd(main_sheet, header_positions, i) ==
    IF i + 1 <= Len(header_positions)
    THEN header_positions[i + 1]
    ELSE main_sheet.ncols

\* the for loop of _find_section_ranges from header i on
RECURSIVE find_section_ranges_loop(_, _, _, _)
find_section_ranges_loop(main_sheet, header_positions, i, secs) ==
    IF i > Len(header_positions) THEN secs
    ELSE LET name      == main_sheet.cells[HEADER_ROW][header_positions[i]]
             start_col == header_positions[i]
             end_col   == SectionEnd(main_sheet, header_positions, i)
         IN find_section_ranges_loop(main_sheet, header_positions, i + 1,
                DictSet(secs, name, [start |-> start_col, stop |-> end_col]))

\* _find_section_ranges
find_section_ranges(main_sheet) ==
    find_section_ranges_loop(main_sheet,
        NotNaPositions(main_sheet.cells[HEADER_ROW], 0, main_sheet.ncols), 1, <<>>)

\* the renaming of _clean_section_dataframe: DATE_COLUMN becomes "Date"
RenameDateColumn(df) ==
    [df EXCEPT !.columns =
        [j \in DOMAIN df.columns |->
            IF df.columns[j] # DATE_COLUMN THEN df.columns[j] ELSE "Date"]]

\* _clean_section_dataframe: [ok, df, err]
clean_section_dataframe(df) ==
    IF df.rows = <<>>
    THEN [ok |-> FALSE, df |-> EmptyFrame,
          err |-> [type |-> "IndexError", msg |-> <<"single positional indexer is out-of-bounds">>]]
    ELSE
    LET promoted == [columns |-> df.rows[1],
                     index   |-> Tail(df.index),
                     rows    |-> Tail(df.rows)]
        noYear   == IF "Year" \in Range(promoted.columns)
                    THEN DropColumns(promoted, "Year")
                    ELSE promoted
        dated    == IF DATE_COLUMN \in Range(noYear.columns)
                    THEN ToDatetime(RenameDateColumn(noYear), "Date")
                    ELSE [ok |-> TRUE, df |-> noYear, err |-> NoError]
    IN IF dated.ok
       THEN [ok |-> TRUE, df |-> SortIndex(dated.df), err |-> NoError]
       ELSE [ok |-> FALSE, df |-> EmptyFrame, err |-> dated.err]

\* np.r_[0, col_range.start : col_range.stop]
SectionColumns(col_range) == <<0>> \o PyRange(col_range.start, col_range.stop)

\* _extract_section_data: [ok, df, err]
extract_section_data(main_sheet, col_range) ==
    clean_section_dataframe(
        ILoc(main_sheet, DATA_START_ROW, SectionColumns(col_range)))

----------------------------------------------------------------------------
(* Exceptions and the try blocks they pass through *)

HTTPError == [type |-> "HTTPError", msg |-> <<"HTTP error">>]
KeyboardInterrupt == [type |-> "KeyboardInterrupt", msg |-> <<>>]

\* the classes derived from Exception; KeyboardInterrupt derives from
\* BaseException only
IsException(e) == e.type \in {"ValueError", "HTTPError", "OSError", "IndexError"}

\* the try blocks around each position, innermost first
Handlers(at) ==
    CASE at \in {"resolve_portal", "resolve_dataset"} ->
            <<"resolve_excel_url", "run_monthly_scraper", "run_monthly", "main">>
      [] at \in {"download", "save_json"} ->
            <<"run_monthly_scraper", "run_monthly", "main">>
      [] at \in {"read_excel", "validate"} ->
            <<"TODExcelWorkbook", "run_monthly_scraper", "run_monthly", "main">>
      [] at \in {"find_ranges", "sections_done"} ->
            <<"_parse_all_sections", "TODExcelWorkbook", "run_monthly_scraper",
              "run_monthly", "main">>
      [] at = "parse_section" ->
            <<"section", "_parse_all_sections", "TODExcelWorkbook",
              "run_monthly_scraper", "run_monthly", "main">>
      [] at \in {"daily_fetch", "daily_row"} ->
            <<"run_daily_scraper", "run_daily", "main">>
      [] at \in {"daily_print"} -> <<"run_daily", "main">>
      [] OTHER -> <<"main">>

\* every except clause written as a bare except
Catches_bare(handler, e) == TRUE

\* the except clauses of a try block take the exception
Catches(handler, e) ==
    IF handler = "main"
    THEN e.type = "KeyboardInterrupt" \/ IsException(e)
    ELSE IsException(e)

\* the section loop re-raises instead of continuing with the next section
OnCatch_abort(handler) ==
    CASE handler = "resolve_excel_url" -> "swallow"
      [] handler \in {"section", "_parse_all_sections", "run_monthly_scraper",
                      "run_daily_scraper"} -> "reraise"
      [] handler = "TODExcelWorkbook" -> "wrap"
      [] OTHER -> "return"

\* what the except clause of a try block does with the exception it took:
\* resolve_excel_url returns the static URL and the section loop continues
\* ("swallow"), _parse_all_sections and the scrapers log and re-raise,
\* TODExcelWorkbook raises a ValueError that wraps it, the cli commands and
\* main return an exit code
OnCatch(handler) ==
    CASE handler \in {"resolve_excel_url", "section"} -> "swallow"
      [] handler \in {"_parse_all_sections", "run_monthly_scraper",
                      "run_daily_scraper"} -> "reraise"
      [] handler = "TODExcelWorkbook" -> "wrap"
      [] OTHER -> "return"

\* where an exception raised inside the try blocks ends up, and as what
RECURSIVE Unwind(_, _)
Unwind(e, handlers) ==
    IF handlers = <<>> THEN [at |-> "uncaught", exc |-> e]
    ELSE LET h == Head(handlers) IN
         IF ~Catches(h, e) THEN Unwind(e, Tail(handlers))
         ELSE IF OnCatch(h) = "reraise" THEN Unwind(e, Tail(handlers))
         ELSE IF OnCatch(h) = "wrap"
         THEN Unwind(ValueError(<<"Invalid Excel file structure: ">> \o e.msg),
                     Tail(handlers))
         ELSE [at |-> h, exc |-> e]

----------------------------------------------------------------------------
(* The files the download can deliver *)

NoSheet == [nrows |-> 0, ncols |-> 0, cells |-> <<>>]
NoBook == [sheets |-> {}, main |-> NoSheet]
NoFile == [readable |-> FALSE, sheets |-> {}, main |-> NoSheet]
NoResponse == [url |-> NoValue, ok |-> FALSE, link |-> NoValue]

AllSheetNames == Range(SHEET_NAMES)

\* an unreadable file and workbooks that lack one of the sheets
BrokenFiles ==
    {NoFile}
    \cup {[readable |-> TRUE, sheets |-> AllSheetNames \ {missing}, main |-> NoSheet] :
             missing \in {MAIN_SHEET, "Readme"}}

\* a workbook with every sheet
Workbook(main_sheet) ==
    [readable |-> TRUE, sheets |-> AllSheetNames, main |-> main_sheet]

\* pd.read_excel(BytesIO(bytes_data), sheet_name=SHEET_NAMES, header=None):
\* [ok, book, err]; every requested sheet has to be in the file
RECURSIVE FirstMissing(_, _)
FirstMissing(names, present) ==
    IF names = <<>> THEN NoValue
    ELSE IF Head(names) \notin present THEN Head(names)
    ELSE FirstMissing(Tail(names), present)

read_excel(file) ==
    IF ~file.readable
    THEN [ok |-> FALSE, book |-> NoBook,
          err |-> ValueError(<<"Excel file format cannot be determined">>)]
    ELSE IF FirstMissing(SHEET_NAMES, file.sheets) # NoValue
    THEN [ok |-> FALSE, book |-> NoBook,
          err |-> ValueError(<<"Worksheet named '",
                               FirstMissing(SHEET_NAMES, file.sheets), "' not found">>)]
    ELSE [ok |-> TRUE, book |-> [sheets |-> file.sheets, main |-> file.main],
          err |-> NoError]

----------------------------------------------------------------------------
(* save_json *)

\* section_name.replace(" ", "_")
ReplaceSpaces(name) ==
    CASE name = "Vessel Visits" -> "Vessel_Visits"
      [] OTHER -> name

\* str.lower()
Lower(name) ==
    CASE name = "Vessel_Visits" -> "vessel_visits"
      [] name = "Vessel Visits" -> "vessel visits"
      [] OTHER -> name

\* section_name.replace(" ", "_").lower() + ".json"
FileName(section_name) == <<Lower(ReplaceSpaces(section_name)), ".json">>

\* x.isoformat() if hasattr(x, "isoformat") else x
IsoFormat(x) ==
    CASE x = "Timestamp('2023-01-31 00:00:00')" -> "2023-01-31T00:00:00"
      [] x = NaT -> "NaT"
      [] OTHER -> x

\* one row as a dict from column label to value, from column j on
RECURSIVE RowDict(_, _, _, _)
RowDict(columns, row, j, d) ==
    IF j > Len(columns) THEN d
    ELSE RowDict(columns, row, j + 1, DictSet(d, columns[j], IsoFormat(row[j])))

\* dataframe.map(...).to_dict(orient="records")
ToRecords(df) == [i \in DOMAIN df.rows |-> RowDict(df.columns, df.rows[i], 1, <<>>)]

\* the files the loop of save_json has written once n sections are done
RECURSIVE WriteFiles(_, _, _)
WriteFiles(secs, n, written) ==
    IF n = 0 THEN written
    ELSE DictSet(WriteFiles(secs, n - 1, written), FileName(secs[n].key),
                 [key |-> secs[n].key, records |-> ToRecords(secs[n].value)])

----------------------------------------------------------------------------
(* The program *)

TOD_URL == "https://opendata.transport.nsw.gov.au/dataset/port-of-newcastle"
DYNAMIC_URL == "https://opendata.transport.nsw.gov.au/data/dataset/5da0e3b9/resource/0000/download/port-of-newcastle.xlsx"

\* the href of the download link on the dataset page
DynamicUrls == {MONTHLY_DATA_EXCEL_URL, DYNAMIC_URL}

NoPage == [structure |-> NoValue, rows |-> <<>>]

Init ==
    /\ pc = "start"
    /\ command = NoValue
    /\ exitCode = {}
    /\ error = NoError
    /\ excel_url = NoValue
    /\ xlsx_data = NoFile
    /\ response = NoResponse
    /\ spreadsheet = NoBook
    /\ section_ranges = <<>>
    /\ nextSection = 0
    /\ sections = <<>>
    /\ subsheets = [assigned |-> FALSE, value |-> <<>>]
    /\ createdDir = FALSE
    /\ files = <<>>
    /\ page = NoPage
    /\ movements = <<>>
    /\ printed = <<>>

workbookVars == <<spreadsheet, section_ranges, sections, subsheets>>
diskVars == <<createdDir, files>>
dailyVars == <<page, movements>>

\* An exception raised at the current position travels through the try
\* blocks around that position (Unwind).  RaiseAt gives pc, exitCode,
\* error, printed, excel_url and nextSection their next values.
RaiseAt(at, e) ==
    LET r == Unwind(e, Handlers(at)) IN
    IF r.at = "resolve_excel_url"
    THEN /\ excel_url' = MONTHLY_DATA_EXCEL_URL
         /\ pc' = "download"
         /\ UNCHANGED <<exitCode, error, printed, nextSection>>
    ELSE IF r.at = "section"
    THEN /\ nextSection' = nextSection + 1
         /\ UNCHANGED <<pc, excel_url, exitCode, error, printed>>
    ELSE IF r.at \in {"run_monthly", "run_daily"}
    THEN /\ printed' = Append(printed,
                <<IF r.at = "run_monthly" THEN "Monthly scraper failed: "
                  ELSE "Daily scraper failed: ">> \o r.exc.msg)
         /\ exitCode' = {1}
         /\ error' = r.exc
         /\ pc' = "exit"
         /\ UNCHANGED <<excel_url, nextSection>>
    ELSE IF r.at = "main"
    THEN /\ printed' = Append(printed,
                IF r.exc.type = "KeyboardInterrupt" THEN <<"Interrupted by user">>
                ELSE <<"Unexpected error: ">> \o r.exc.msg)
         /\ exitCode' = IF r.exc.type = "KeyboardInterrupt" THEN {130} ELSE {1}
         /\ error' = r.exc
         /\ pc' = "exit"
         /\ UNCHANGED <<excel_url, nextSection>>
    ELSE /\ error' = r.exc
         /\ pc' = "uncaught"
         /\ UNCHANGED <<excel_url, nextSection, exitCode, printed>>

Raise(e) == RaiseAt(pc, e)

\* main: parse the arguments, return 1 with the help text if no command
ParseArgs ==
    /\ pc = "start"
    /\ \E cmd \in {"", "monthly", "daily"} :
        /\ command' = cmd
        /\ IF cmd = ""
           THEN /\ printed' = Append(printed, <<"usage: scraper [-h] [--verbose] {monthly,daily}">>)
                /\ exitCode' = {1}
                /\ pc' = "exit"
           ELSE /\ pc' = IF cmd = "monthly" THEN "resolve_portal" ELSE "daily_fetch"
                /\ UNCHANGED <<printed, exitCode>>
    /\ UNCHANGED <<error, excel_url, xlsx_data, response, nextSection,
                   workbookVars, diskVars, dailyVars>>

\* resolve_excel_url: fetch the portal page and look for the open-data link
ResolvePortal ==
    /\ pc = "resolve_portal"
    /\ \E outcome \in {"http_error", "no_link", "link"} :
        /\ response' = [url  |-> MONTHLY_DATA_PORTAL_URL,
                        ok   |-> outcome # "http_error",
                        link |-> IF outcome = "link" THEN TOD_URL ELSE NoValue]
        /\ IF outcome = "http_error" THEN Raise(HTTPError)
           ELSE IF outcome = "no_link"
           THEN Raise(ValueError(<<"Could not find Transport Open Data link">>))
           ELSE /\ pc' = "resolve_dataset"
                /\ UNCHANGED <<excel_url, exitCode, error, printed, nextSection>>
    /\ UNCHANGED <<command, xlsx_data, workbookVars, diskVars, dailyVars>>

\* resolve_excel_url: fetch the dataset page and look for the download link
ResolveDataset ==
    /\ pc = "resolve_dataset"
    /\ \E outcome \in {"http_error", "no_link"} \cup DynamicUrls :
        /\ response' = [url  |-> response.link,
                        ok   |-> outcome # "http_error",
                        link |-> IF outcome \in DynamicUrls THEN outcome ELSE NoValue]
        /\ IF outcome = "http_error" THEN Raise(HTTPError)
           ELSE IF outcome = "no_link"
           THEN Raise(ValueError(<<"Could not find dynamic download link">>))
           ELSE /\ excel_url' = outcome
                /\ pc' = "download"
                /\ UNCHANGED <<exitCode, error, printed, nextSection>>
    /\ UNCHANGED <<command, xlsx_data, workbookVars, diskVars, dailyVars>>

\* what a successful download puts into xlsx_data: an unreadable file, a
\* workbook that lacks a sheet, or a workbook whose main sheet ends before
\* the column header row or has that row and up to MaxDataRows data rows
DeliverFile ==
    \/ xlsx_data' \in BrokenFiles
    \/ \E c \in 1 .. MaxCols, n \in 0 .. DATA_START_ROW :
          \E hdr \in [0 .. c - 1 -> HeaderCells] :
             xlsx_data' = Workbook(Sheet(n, c, hdr, hdr, <<>>))
    \/ \E c \in 1 .. MaxCols, k \in 0 .. MaxDataRows :
          \E hdr \in [0 .. c - 1 -> HeaderCells],
             labels \in [0 .. c - 1 -> ColumnLabels] :
             \E data \in DataRows(c, k, labels) :
                xlsx_data' = Workbook(Sheet(DATA_START_ROW + 1 + k, c,
                                            hdr, labels, data))

\* download_excel: the request fails or delivers a file
Download ==
    /\ pc = "download"
    /\ \/ /\ response' = [url |-> excel_url, ok |-> FALSE, link |-> NoValue]
          /\ Raise(HTTPError)
          /\ UNCHANGED xlsx_data
       \/ /\ response' = [url |-> excel_url, ok |-> TRUE, link |-> NoValue]
          /\ DeliverFile
          /\ pc' = "read_excel"
          /\ UNCHANGED <<excel_url, exitCode, error, printed, nextSection>>
    /\ UNCHANGED <<command, workbookVars, diskVars, dailyVars>>

\* TODExcelWorkbook.__init__: load the workbook
ReadExcel ==
    /\ pc = "read_excel"
    /\ LET r == read_excel(xlsx_data) IN
       IF r.ok
       THEN /\ spreadsheet' = r.book
            /\ pc' = "validate"
            /\ UNCHANGED <<excel_url, exitCode, error, printed, nextSection>>
       ELSE /\ Raise(r.err)
            /\ UNCHANGED spreadsheet
    /\ UNCHANGED <<command, xlsx_data, response, section_ranges, sections, subsheets,
                   diskVars, dailyVars>>

\* TODExcelWorkbook.__init__: self._validate_excel_structure()
ValidateStructure ==
    /\ pc = "validate"
    /\ LET cause == validate_excel_structure(spreadsheet) IN
       IF cause = <<>>
       THEN /\ pc' = "find_ranges"
            /\ UNCHANGED <<excel_url, exitCode, error, printed, nextSection>>
       ELSE Raise(ValueError(cause))
    /\ UNCHANGED <<command, xlsx_data, response, workbookVars, diskVars, dailyVars>>

\* _parse_all_sections: section_ranges = self._find_section_ranges()
FindSectionRanges ==
    /\ pc = "find_ranges"
    /\ section_ranges' = find_section_ranges(spreadsheet.main)
    /\ sections' = <<>>
    /\ nextSection' = 1
    /\ pc' = "parse_section"
    /\ UNCHANGED <<command, exitCode, error, printed, excel_url, xlsx_data, response,
                   spreadsheet, subsheets, diskVars, dailyVars>>

\* _parse_all_sections: one turn of the for loop
ParseSection ==
    /\ pc = "parse_section"
    /\ nextSection <= Len(section_ranges)
    /\ LET name == section_ranges[nextSection].key
           r    == extract_section_data(spreadsheet.main,
                                        section_ranges[nextSection].value)
       IN IF r.ok
          THEN /\ sections' = DictSet(sections, name, r.df)
               /\ nextSection' = nextSection + 1
               /\ UNCHANGED <<pc, excel_url, exitCode, error, printed>>
          ELSE /\ Raise(r.err)
               /\ UNCHANGED sections
    /\ UNCHANGED <<command, xlsx_data, response, spreadsheet, section_ranges, subsheets,
                   diskVars, dailyVars>>

\* _parse_all_sections after the loop, and the assignment to self.subsheets
\* the sections are returned without the check that there are any
ReturnSections_noCheck ==
    /\ pc = "parse_section"
    /\ nextSection > Len(section_ranges)
    /\ subsheets' = [assigned |-> TRUE, value |-> sections]
    /\ pc' = "save_json"
    /\ UNCHANGED <<excel_url, exitCode, error, printed, nextSection>>
    /\ UNCHANGED <<command, xlsx_data, response, spreadsheet, section_ranges, sections,
                   diskVars, dailyVars>>

ReturnSections ==
    /\ pc = "parse_section"
    /\ nextSection > Len(section_ranges)
    /\ IF sections = <<>>
       THEN /\ RaiseAt("sections_done",
                       ValueError(<<"No sections could be parsed successfully">>))
            /\ UNCHANGED subsheets
       ELSE /\ subsheets' = [assigned |-> TRUE, value |-> sections]
            /\ pc' = "save_json"
            /\ UNCHANGED <<excel_url, exitCode, error, printed, nextSection>>
    /\ UNCHANGED <<command, xlsx_data, response, spreadsheet, section_ranges, sections,
                   diskVars, dailyVars>>

OUTPUT_PATH == "../data/monthly/"
OSError == [type |-> "OSError", msg |-> <<"[Errno 13] Permission denied">>]

\* save_json, and the return of run_monthly_scraper and run_monthly.  The
\* directory is there or not; makedirs (failAt = 0) or the open() of file
\* failAt may fail, failAt beyond the last file means that nothing fails.
SaveJson ==
    /\ pc = "save_json"
    /\ \E dirExists \in BOOLEAN, failAt \in 0 .. Len(subsheets.value) + 1 :
        /\ failAt = 0 => ~dirExists
        /\ createdDir' = (~dirExists /\ failAt # 0)
        /\ files' = WriteFiles(subsheets.value,
                        IF failAt = 0 THEN 0 ELSE failAt - 1, files)
        /\ IF failAt <= Len(subsheets.value)
           THEN Raise(OSError)
           ELSE /\ printed' = Append(printed, <<"Monthly data saved to ", OUTPUT_PATH>>)
                /\ exitCode' = {0}
                /\ pc' = "exit"
                /\ UNCHANGED <<error, excel_url, nextSection>>
    /\ UNCHANGED <<command, xlsx_data, response, workbookVars, dailyVars>>

----------------------------------------------------------------------------
(* The daily movements scraper *)

HEADINGS == <<"Date & Time", "Vessel">>

\* the cells of a body row: none, a date that parses, a text that does not
DailyRows == {<<>>, <<"Sun 01 Nov14:30", "CSL RELIANCE">>, <<"TBA", "CSL RELIANCE">>}

RECURSIVE SeqsUpTo(_, _)
SeqsUpTo(S, n) ==
    IF n = 0 THEN {<<>>}
    ELSE SeqsUpTo(S, n - 1)
         \cup {Append(q, x) : q \in {t \in SeqsUpTo(S, n - 1) : Len(t) = n - 1}, x \in S}

Pages ==
    {[structure |-> st, rows |-> <<>>] : st \in {"no_table", "no_thead", "no_tbody"}}
    \cup {[structure |-> "complete", rows |-> rows] : rows \in SeqsUpTo(DailyRows, MaxDailyRows)}

\* datetime.strptime(f"{year} {text}", "%Y %a %d %b%H:%M"): [ok, value]
DailyStrptime(text) ==
    CASE text = "Sun 01 Nov14:30" -> [ok |-> TRUE, value |-> "datetime(2026, 11, 1, 14, 30)"]
      [] OTHER -> [ok |-> FALSE, value |-> text]

\* dict(zip(headings, columns))
RECURSIVE ZipDict(_, _, _, _)
ZipDict(keys, values, j, d) ==
    IF j > Len(keys) \/ j > Len(values) THEN d
    ELSE ZipDict(keys, values, j + 1, DictSet(d, keys[j], values[j]))

NumStr(n) == CASE n = 0 -> "0" [] n = 1 -> "1" [] n = 2 -> "2" [] n = 3 -> "3"
               [] n = 4 -> "4" [] OTHER -> "many"

\* gen_daily_movements up to the loop over the body rows
DailyFetch ==
    /\ pc = "daily_fetch"
    /\ \/ /\ Raise(HTTPError)
          /\ UNCHANGED dailyVars
       \/ \E pg \in Pages :
          /\ page' = pg
          /\ movements' = <<>>
          /\ pc' = IF pg.structure = "complete" THEN "daily_row" ELSE "daily_print"
          /\ UNCHANGED <<excel_url, exitCode, error, printed, nextSection>>
    /\ UNCHANGED <<command, xlsx_data, response, workbookVars, diskVars>>

\* a row whose date does not parse is skipped instead of ending the run
DailyRow_skipBadRow ==
    /\ pc = "daily_row"
    /\ page.rows # <<>>
    /\ LET columns == Head(page.rows)
           date    == DailyStrptime(columns[1])
       IN /\ page' = [page EXCEPT !.rows = Tail(page.rows)]
          /\ movements' = IF columns # <<>> /\ date.ok
                          THEN Append(movements,
                                 ZipDict(HEADINGS, [columns EXCEPT ![1] = date.value], 1, <<>>))
                          ELSE movements
    /\ UNCHANGED <<pc, excel_url, exitCode, error, printed, nextSection>>
    /\ UNCHANGED <<command, xlsx_data, response, workbookVars, diskVars>>

\* gen_daily_movements: one turn of the loop over the body rows
DailyRow ==
    /\ pc = "daily_row"
    /\ page.rows # <<>>
    /\ LET columns == Head(page.rows)
           date    == DailyStrptime(columns[1])
       IN IF columns = <<>>
          THEN /\ page' = [page EXCEPT !.rows = Tail(page.rows)]
               /\ UNCHANGED <<movements, pc, excel_url, exitCode, error, printed, nextSection>>
          ELSE IF date.ok
          THEN /\ page' = [page EXCEPT !.rows = Tail(page.rows)]
               /\ movements' = Append(movements,
                     ZipDict(HEADINGS, [columns EXCEPT ![1] = date.value], 1, <<>>))
               /\ UNCHANGED <<pc, excel_url, exitCode, error, printed, nextSection>>
          ELSE /\ Raise(ValueError(<<"time data does not match format '%Y %a %d %b%H:%M': ",
                                     columns[1]>>))
               /\ UNCHANGED <<page, movements>>
    /\ UNCHANGED <<command, xlsx_data, response, workbookVars, diskVars>>

\* gen_daily_movements: the loop is over
DailyRowsEnd ==
    /\ pc = "daily_row"
    /\ page.rows = <<>>
    /\ pc' = "daily_print"
    /\ UNCHANGED <<command, exitCode, error, printed, excel_url, xlsx_data, response,
                   nextSection, workbookVars, diskVars, dailyVars>>

\* run_daily: print the movements, return 0
DailyPrint ==
    /\ pc = "daily_print"
    /\ printed' = printed \o <<<<"Found ", NumStr(Len(movements)), " vessel movements:">>>>
                          \o [i \in DOMAIN movements |-> <<NumStr(i), movements[i]>>]
    /\ exitCode' = {0}
    /\ pc' = "exit"
    /\ UNCHANGED <<command, error, excel_url, xlsx_data, response, nextSection,
                   workbookVars, diskVars, dailyVars>>

----------------------------------------------------------------------------

\* the positions inside args.func(args)
RunningPcs == {"resolve_portal", "resolve_dataset", "download", "read_excel",
               "validate", "find_ranges", "parse_section", "save_json",
               "daily_fetch", "daily_row", "daily_print"}

\* the user presses Ctrl-C while the subcommand runs
Interrupt ==
    /\ pc \in RunningPcs
    /\ Raise(KeyboardInterrupt)
    /\ UNCHANGED <<command, xlsx_data, response, workbookVars, diskVars, dailyVars>>

Next ==
    \/ ParseArgs
    \/ ResolvePortal
    \/ ResolveDataset
    \/ Download
    \/ ReadExcel
    \/ ValidateStructure
    \/ FindSectionRanges
    \/ ParseSection
    \/ ReturnSections
    \/ SaveJson
    \/ DailyFetch
    \/ DailyRow
    \/ DailyRowsEnd
    \/ DailyPrint
    \/ Interrupt

Spec == Init /\ [][Next]_vars

----------------------------------------------------------------------------
(* The script monthly_data.py: get_xlsx, TODExcelWorkbook and save_json run *)
(* one after the other in its main, inside no try block.                    *)

TypeError == [type |-> "TypeError", msg |-> <<"'NoneType' object is not subscriptable">>]
IndexError == [type |-> "IndexError", msg |-> <<"single positional indexer is out-of-bounds">>]

\* an exception nothing catches ends the script with a traceback and status 1
LegacyRaise(e) ==
    /\ error' = e
    /\ exitCode' = {1}
    /\ pc' = "uncaught"

\* get_url_dynamic: fetch the portal page and take the href of the open-data link
LegacyPortal ==
    /\ pc = "get_url_dynamic"
    /\ \E outcome \in {"http_error", "no_link", "link"} :
        /\ response' = [url  |-> MONTHLY_DATA_PORTAL_URL,
                        ok   |-> outcome # "http_error",
                        link |-> IF outcome = "link" THEN TOD_URL ELSE NoValue]
        /\ IF outcome = "http_error" THEN LegacyRaise(HTTPError)
           ELSE IF outcome = "no_link" THEN LegacyRaise(TypeError)
           ELSE /\ pc' = "get_url_dataset"
                /\ UNCHANGED <<exitCode, error>>
    /\ UNCHANGED <<command, excel_url, printed, nextSection, xlsx_data,
                   workbookVars, diskVars, dailyVars>>

\* dynamic_url or STATIC_URL
UrlOr(dynamic_url, static_url) == IF dynamic_url = "" THEN static_url ELSE dynamic_url

\* get_url_dynamic: fetch the dataset page and take the href of the download
\* link; get_xlsx: the note about a changed URL and the choice of the URL
LegacyDataset ==
    /\ pc = "get_url_dataset"
    /\ \E outcome \in {"http_error", "no_link"} \cup DynamicUrls :
        /\ response' = [url  |-> response.link,
                        ok   |-> outcome # "http_error",
                        link |-> IF outcome \in DynamicUrls THEN outcome ELSE NoValue]
        /\ IF outcome = "http_error"
           THEN LegacyRaise(HTTPError) /\ UNCHANGED <<excel_url, printed>>
           ELSE IF outcome = "no_link"
           THEN LegacyRaise(TypeError) /\ UNCHANGED <<excel_url, printed>>
           ELSE /\ printed' = IF outcome # MONTHLY_DATA_EXCEL_URL
                              THEN Append(printed, <<"NOTE: Saved static URL different to dynamic URL, using new URL">>)
                              ELSE printed
                /\ excel_url' = UrlOr(outcome, MONTHLY_DATA_EXCEL_URL)
                /\ pc' = "get_xlsx"
                /\ UNCHANGED <<exitCode, error>>
    /\ UNCHANGED <<command, nextSection, xlsx_data, workbookVars, diskVars, dailyVars>>

\* get_xlsx: the download
LegacyDownload ==
    /\ pc = "get_xlsx"
    /\ \/ /\ response' = [url |-> excel_url, ok |-> FALSE, link |-> NoValue]
          /\ LegacyRaise(HTTPError)
          /\ UNCHANGED xlsx_data
       \/ /\ response' = [url |-> excel_url, ok |-> TRUE, link |-> NoValue]
          /\ DeliverFile
          /\ pc' = "legacy_workbook"
          /\ UNCHANGED <<exitCode, error>>
    /\ UNCHANGED <<command, excel_url, printed, nextSection, workbookVars,
                   diskVars, dailyVars>>

\* _get_headings: the header cells of row 2 zipped with the slices
\* slice(idx[i], idx[i + 1]), the last one slice(idx[i], None); the stop of
\* a slice is a set, empty for None
RECURSIVE get_headings_loop(_, _, _, _)
get_headings_loop(main_sheet, idx, i, d) ==
    IF i > Len(idx) THEN d
    ELSE get_headings_loop(main_sheet, idx, i + 1,
            DictSet(d, main_sheet.cells[HEADER_ROW][idx[i]],
                    [start |-> idx[i],
                     stop  |-> IF i + 1 <= Len(idx) THEN {idx[i + 1]} ELSE {}]))

get_headings(main_sheet) ==
    get_headings_loop(main_sheet,
        NotNaPositions(main_sheet.cells[HEADER_ROW], 0, main_sheet.ncols), 1, <<>>)

\* every slice taken to the last column of the sheet
build_subsheet_toLastColumn(main_sheet, slice_) ==
    clean_section_dataframe(
        ILoc(main_sheet, 3, <<0>> \o PyRange(slice_.start, main_sheet.ncols)))

\* _build_subsheet: [ok, df, err]; start = slice_.start or 0,
\* stop = slice_.stop or df.shape[1], cols = np.r_[0, start:stop:1],
\* df.iloc[3:, cols], then the first row becomes the header, "Year" goes,
\* "Month" becomes "Date" and is parsed, the rows are sorted by index
build_subsheet(main_sheet, slice_) ==
    LET start == slice_.start
        stop  == IF slice_.stop \in {{}, {0}} THEN main_sheet.ncols
                 ELSE CHOOSE x \in slice_.stop : TRUE
    IN clean_section_dataframe(
           ILoc(main_sheet, 3, <<0>> \o PyRange(start, stop)))

\* the dict comprehension of __init__ from heading i on: [ok, value, err]
RECURSIVE build_subsheets(_, _, _, _)
build_subsheets(main_sheet, headings, i, d) ==
    IF i > Len(headings) THEN [ok |-> TRUE, value |-> d, err |-> NoError]
    ELSE LET r == build_subsheet(main_sheet, headings[i].value)
         IN IF r.ok
            THEN build_subsheets(main_sheet, headings, i + 1,
                                 DictSet(d, headings[i].key, r.df))
            ELSE [ok |-> FALSE, value |-> <<>>, err |-> r.err]

\* TODExcelWorkbook.__init__ of the script: load the workbook, read the
\* headings of row 2 and build every subsheet; the first failure ends it
LegacyWorkbook ==
    /\ pc = "legacy_workbook"
    /\ LET r == read_excel(xlsx_data) IN
       IF ~r.ok
       THEN LegacyRaise(r.err) /\ UNCHANGED <<spreadsheet, subsheets>>
       ELSE /\ spreadsheet' = r.book
            /\ IF r.book.main.nrows <= 2
               THEN LegacyRaise(IndexError) /\ UNCHANGED subsheets
               ELSE LET b == build_subsheets(r.book.main, get_headings(r.book.main),
                                             1, <<>>)
                    IN IF b.ok
                       THEN /\ subsheets' = [assigned |-> TRUE, value |-> b.value]
                            /\ pc' = "legacy_save_json"
                            /\ UNCHANGED <<exitCode, error>>
                       ELSE LegacyRaise(b.err) /\ UNCHANGED subsheets
    /\ UNCHANGED <<command, excel_url, printed, nextSection, xlsx_data, response,
                   section_ranges, sections, diskVars, dailyVars>>

\* the lines print(f"Saving {filename}...") of the first n subsheets
RECURSIVE SavingLines(_, _)
SavingLines(secs, n) ==
    IF n = 0 THEN <<>>
    ELSE Append(SavingLines(secs, n - 1),
                <<"Saving ">> \o FileName(secs[n].key) \o <<"...">>)

\* save_json of the script and the end of its main.  The directory is there
\* or not; makedirs (failAt = 0) or the open() of file failAt may fail,
\* failAt beyond the last file means that nothing fails.
LegacySaveJson ==
    /\ pc = "legacy_save_json"
    /\ \E dirExists \in BOOLEAN, failAt \in 0 .. Len(subsheets.value) + 1 :
        /\ failAt = 0 => ~dirExists
        /\ createdDir' = (~dirExists /\ failAt # 0)
        /\ files' = WriteFiles(subsheets.value,
                        IF failAt = 0 THEN 0 ELSE failAt - 1, files)
        /\ printed' = printed \o SavingLines(subsheets.value,
                        IF failAt > Len(subsheets.value)
                        THEN Len(subsheets.value) ELSE failAt)
        /\ IF failAt <= Len(subsheets.value)
           THEN LegacyRaise(OSError)
           ELSE /\ exitCode' = {0}
                /\ pc' = "exit"
                /\ UNCHANGED error
    /\ UNCHANGED <<command, excel_url, nextSection, xlsx_data, response,
                   workbookVars, dailyVars>>

InitLegacy ==
    /\ pc = "get_url_dynamic"
    /\ command = NoValue
    /\ exitCode = {}
    /\ error = NoError
    /\ excel_url = NoValue
    /\ xlsx_data = NoFile
    /\ response = NoResponse
    /\ spreadsheet = NoBook
    /\ section_ranges = <<>>
    /\ nextSection = 0
    /\ sections = <<>>
    /\ subsheets = [assigned |-> FALSE, value |-> <<>>]
    /\ createdDir = FALSE
    /\ files = <<>>
    /\ page = NoPage
    /\ movements = <<>>
    /\ printed = <<>>

NextLegacy ==
    \/ LegacyPortal
    \/ LegacyDataset
    \/ LegacyDownload
    \/ LegacyWorkbook
    \/ LegacySaveJson

SpecLegacy == InitLegacy /\ [][NextLegacy]_vars

----------------------------------------------------------------------------
(* Both extractors on the same bytes: TODExcelWorkbook of the package runs  *)
(* on a downloaded file, then TODExcelWorkbook of the script is built from  *)
(* the same xlsx_data.  sections, section_ranges, error and (until the      *)
(* script's class assigns it) subsheets keep what the package's class left. *)

\* the package's class is done with the file, by returning or by raising
RefactoredDone ==
    /\ response.ok
    /\ \/ pc = "save_json"
       \/ pc = "exit" /\ IsException(error)

\* monthly_data.TODExcelWorkbook(xlsx_data) is called with the same bytes
SameBytesToLegacy ==
    /\ RefactoredDone
    /\ pc' = "legacy_workbook"
    /\ UNCHANGED <<command, exitCode, error, excel_url, xlsx_data, response,
                   nextSection, printed, workbookVars, diskVars, dailyVars>>

InitBoth ==
    /\ pc = "download"
    /\ command = "monthly"
    /\ exitCode = {}
    /\ error = NoError
    /\ excel_url = MONTHLY_DATA_EXCEL_URL
    /\ xlsx_data = NoFile
    /\ response = NoResponse
    /\ spreadsheet = NoBook
    /\ section_ranges = <<>>
    /\ nextSection = 0
    /\ sections = <<>>
    /\ subsheets = [assigned |-> FALSE, value |-> <<>>]
    /\ createdDir = FALSE
    /\ files = <<>>
    /\ page = NoPage
    /\ movements = <<>>
    /\ printed = <<>>

NextBoth ==
    \/ Download
    \/ ReadExcel
    \/ ValidateStructure
    \/ FindSectionRanges
    \/ ParseSection
    \/ ReturnSections
    \/ SameBytesToLegacy
    \/ LegacyWorkbook

SpecBoth == InitBoth /\ [][NextBoth]_vars

----------------------------------------------------------------------------
(* The section header rows of wider sheets: the workbook is loaded with a   *)
(* main sheet of up to MaxHdrCols columns that has a column header row and  *)
(* no data rows; validation and _find_section_ranges run on it.             *)

HeaderSheets ==
    UNION {{Workbook(Sheet(DATA_START_ROW + 1, c, hdr, [j \in 0 .. c - 1 |-> "Coal"], <<>>)) :
                hdr \in [0 .. c - 1 -> HeaderCells]} :
           c \in 1 .. MaxHdrCols}

InitRanges ==
    /\ pc = "validate"
    /\ command = "monthly"
    /\ exitCode = {}
    /\ error = NoError
    /\ excel_url = MONTHLY_DATA_EXCEL_URL
    /\ xlsx_data \in HeaderSheets
    /\ spreadsheet = read_excel(xlsx_data).book
    /\ response = [url |-> MONTHLY_DATA_EXCEL_URL, ok |-> TRUE, link |-> NoValue]
    /\ section_ranges = <<>>
    /\ nextSection = 0
    /\ sections = <<>>
    /\ subsheets = [assigned |-> FALSE, value |-> <<>>]
    /\ createdDir = FALSE
    /\ files = <<>>
    /\ page = NoPage
    /\ movements = <<>>
    /\ printed = <<>>

NextRanges ==
    \/ ValidateStructure
    \/ FindSectionRanges

SpecRanges == InitRanges /\ [][NextRanges]_vars

----------------------------------------------------------------------------
(* Properties of _find_section_ranges *)

\* _find_section_ranges has returned
RangesComputed == pc = "parse_section"

MainSheet == spreadsheet.main
HeaderRow == MainSheet.cells[HEADER_ROW]

\* the columns of the non-empty header cells
HeaderCols == {j \in 0 .. MainSheet.ncols - 1 : HeaderRow[j] # NaN}

\* the column of the next non-empty header cell right of j, or the column count
NextHeaderOrEnd(j) ==
    IF \E k \in HeaderCols : k > j
    THEN CHOOSE k \in HeaderCols : k > j /\ \A l \in HeaderCols : l > j => k <= l
    ELSE MainSheet.ncols

\* the ranges that hold the column
RangesWith(col) ==
    {i \in DOMAIN section_ranges :
        section_ranges[i].value.start <= col /\ col < section_ranges[i].value.stop}

\* C1: for a header row with N non-empty cells _find_section_ranges returns
\* exactly N ranges, one per non-empty header cell, each from its cell to the
\* next non-empty cell, consecutive ranges contiguous and the last one ending
\* at the column count, also when two header cells carry the same name.
C1_OneRangePerHeaderCell ==
    RangesComputed =>
        /\ Len(section_ranges) = Cardinality(HeaderCols)
        /\ \A j \in HeaderCols : \E i \in DOMAIN section_ranges :
              /\ section_ranges[i].key = HeaderRow[j]
              /\ section_ranges[i].value = [start |-> j, stop |-> NextHeaderOrEnd(j)]
        /\ \A i \in 1 .. Len(section_ranges) - 1 :
              section_ranges[i].value.stop = section_ranges[i + 1].value.start
        /\ section_ranges[Len(section_ranges)].value.stop = MainSheet.ncols

UnderLastOfItsName(col) ==
    \E j \in HeaderCols :
        /\ j <= col /\ col < NextHeaderOrEnd(j)
        /\ \A k \in HeaderCols : k > j => HeaderRow[k] # HeaderRow[j]

----------------------------------------------------------------------------
(* Properties of _parse_all_sections and of the workbook *)

\* what _extract_section_data gives for the i-th range, taken on its own
SectionOutcome(i) == extract_section_data(MainSheet, section_ranges[i].value)

SectionName(i) == section_ranges[i].key

\* the names of the ranges whose extraction succeeds
ExtractableNames == {SectionName(i) : i \in {k \in DOMAIN section_ranges : SectionOutcome(k).ok}}

\* C3: a failure while extracting one section is confined to it: every
\* section tried so far is in the mapping exactly if its own extraction
\* succeeds, with the table that extraction gives on its own; the workbook
\* fails after validation only if no section extracts; and the mapping the
\* workbook ends up with holds exactly the sections that extract.
C3_FailureConfinedToSection ==
    /\ \A i \in DOMAIN section_ranges :
          i < nextSection =>
             /\ DictHas(sections, SectionName(i)) <=> SectionOutcome(i).ok
             /\ SectionOutcome(i).ok =>
                   DictGet(sections, SectionName(i)) = SectionOutcome(i).df
    /\ DictKeys(sections) \subseteq {SectionName(i) : i \in DOMAIN section_ranges}
    /\ (pc = "exit" /\ exitCode = {1} /\ section_ranges # <<>> /\ ~subsheets.assigned)
          => ExtractableNames = {}
    /\ subsheets.assigned =>
          /\ DictKeys(subsheets.value) = ExtractableNames
          /\ \A i \in DOMAIN section_ranges :
                SectionOutcome(i).ok =>
                   DictGet(subsheets.value, SectionName(i)) = SectionOutcome(i).df

\* the workbook was built although one section failed and another did not
C3_Witness ==
    /\ pc = "save_json"
    /\ subsheets.assigned
    /\ \E i, j \in DOMAIN section_ranges :
          /\ i < j
          /\ ~SectionOutcome(i).ok
          /\ SectionOutcome(j).ok
          /\ DictKeys(subsheets.value) = {SectionName(j)}

NoSectionsError ==
    ValueError(<<"Invalid Excel file structure: ",
                 "No sections could be parsed successfully">>)

\* C4: when every section of a validated grid fails, the construction of the
\* workbook fails with the no-sections error (unless the user interrupted
\* it), and a constructed workbook holds at least one section.
C4_NoEmptyWorkbook ==
    /\ subsheets.assigned => subsheets.value # <<>>
    /\ pc = "save_json" => subsheets.assigned
    /\ (pc = "exit" /\ section_ranges # <<>> /\ ExtractableNames = {}
           /\ exitCode # {130})
          => /\ exitCode = {1}
             /\ error = NoSectionsError
             /\ ~subsheets.assigned

\* every section of a validated grid with two sections failed
C4_Witness ==
    /\ pc = "exit"
    /\ Len(section_ranges) = 2
    /\ nextSection = 3
    /\ ExtractableNames = {}
    /\ error = NoSectionsError
    /\ exitCode = {1}

\* the file is a workbook that the validation has to reject
MainSheetMissing(file) == file.readable /\ MAIN_SHEET \notin file.sheets
TooFewRows(file) ==
    file.readable /\ file.sheets = AllSheetNames /\ file.main.nrows <= DATA_START_ROW
NoHeaderCell(file) ==
    /\ file.readable /\ file.sheets = AllSheetNames
    /\ file.main.nrows > DATA_START_ROW
    /\ \A j \in 0 .. file.main.ncols - 1 : file.main.cells[HEADER_ROW][j] = NaN
Rejectable(file) == MainSheetMissing(file) \/ TooFewRows(file) \/ NoHeaderCell(file)

WorkbookParses(file) ==
    LET r == read_excel(file)
        ranges == find_section_ranges(r.book.main)
    IN /\ r.ok
       /\ validate_excel_structure(r.book) = <<>>
       /\ \E i \in DOMAIN ranges : extract_section_data(r.book.main, ranges[i].value).ok

\* C6: save_json runs only after the workbook was parsed: the directory is
\* created and files are written only for a file that parses, and a monthly
\* run whose download, validation or parsing failed ends with an error, exit
\* code 1 (130 if interrupted), no directory created and no file written.
C6_SaveOnlyAfterParse ==
    /\ (pc = "save_json" \/ createdDir \/ files # <<>>) =>
          WorkbookParses(xlsx_data) /\ subsheets.assigned
    /\ (pc = "exit" /\ command = "monthly" /\ ~WorkbookParses(xlsx_data)) =>
          /\ ~createdDir /\ files = <<>>
          /\ error # NoError
          /\ exitCode \in {{1}, {130}}

\* a monthly run ended with exit code 1 because no section could be parsed,
\* and nothing was written
C6_Witness ==
    /\ pc = "exit"
    /\ command = "monthly"
    /\ section_ranges # <<>>
    /\ ~WorkbookParses(xlsx_data)
    /\ exitCode = {1}
    /\ ~createdDir /\ files = <<>>

----------------------------------------------------------------------------
(* Properties of _clean_section_dataframe *)

\* the column header row as the section of the range sees it: column 0, then
\* the columns of the range
PromotedHeader(col_range) ==
    <<MainSheet.cells[DATA_START_ROW][0]>>
    \o [k \in 1 .. col_range.stop - col_range.start |->
           MainSheet.cells[DATA_START_ROW][col_range.start + k - 1]]

NotYear(label) == label # "Year"

\* the promoted header without "Year", the date column under its new name
ExpectedKeys(header) ==
    LET kept == SelectSeq(header, NotYear)
    IN [j \in DOMAIN kept |-> IF kept[j] = DATE_COLUMN THEN "Date" ELSE kept[j]]

\* C7: no table that _extract_section_data produced has a key "Year",
\* wherever and however often "Year" stood in the promoted header row; the
\* other columns are all kept, in order (the date column as "Date"), and
\* every record has a value for each of them.
C7_YearDropped ==
    \A i \in DOMAIN sections :
        LET df     == sections[i].value
            header == PromotedHeader(DictGet(section_ranges, sections[i].key))
        IN /\ "Year" \notin Range(df.columns)
           /\ df.columns = ExpectedKeys(header)
           /\ Len(df.rows) = MainSheet.nrows - DATA_START_ROW - 1
           /\ \A r \in DOMAIN df.rows : Len(df.rows[r]) = Len(df.columns)

\* a table was produced from a promoted header with "Year" in the date
\* column and once more, and another label
C7_Witness ==
    \E i \in DOMAIN sections :
        LET df     == sections[i].value
            header == PromotedHeader(DictGet(section_ranges, sections[i].key))
        IN /\ Len(header) = 3
           /\ header[1] = "Year" /\ header[2] = "Year" /\ header[3] # "Year"
           /\ Len(df.columns) = 1
           /\ Len(df.rows) = 1

\* the cells below the date column label(s) of the range
DateValues(col_range) ==
    {MainSheet.cells[r][c] :
        r \in DATA_START_ROW + 1 .. MainSheet.nrows - 1,
        c \in {k \in {0} \cup (col_range.start .. col_range.stop - 1) :
                  MainSheet.cells[DATA_START_ROW][k] = DATE_COLUMN}}

\* C8: a section whose promoted header holds the date column name either
\* gets a table without the key "Month", with the key "Date" and with a
\* parsed date-time in every "Date" value, or it fails and gets no table; it
\* fails exactly when a value of that column does not match
\* "%Y-%m-%d %H:%M:%S".
C8_DateParsedOrSectionFails ==
    \A i \in DOMAIN section_ranges :
        (i < nextSection /\ DATE_COLUMN \in Range(PromotedHeader(section_ranges[i].value))) =>
            LET name == SectionName(i)
                df   == DictGet(sections, name)
            IN /\ DictHas(sections, name) =>
                    /\ DATE_COLUMN \notin Range(df.columns)
                    /\ "Date" \in Range(df.columns)
                    /\ \A r \in DOMAIN df.rows : \A j \in DOMAIN df.columns :
                          df.columns[j] = "Date" => IsTimestamp(df.rows[r][j])
               /\ ~DictHas(sections, name) <=>
                    \E v \in DateValues(section_ranges[i].value) : ~ParsesAsDate(v)

----------------------------------------------------------------------------
(* Properties of the command line entry point and of resolve_excel_url *)

\* C9: main returns 0 when the subcommand completes, 1 when it ends with an
\* ordinary error or when no subcommand is given, 130 when the user
\* interrupts the running subcommand; no except clause of the scrapers, the
\* workbook parser or the URL resolver turns an interrupt into something
\* else, and no exception leaves main.
C9_ExitCodes ==
    /\ [](/\ pc # "uncaught"
          /\ pc # "exit" => exitCode = {}
          /\ pc = "exit" =>
                /\ exitCode \in {{0}, {1}, {130}}
                /\ exitCode = {130} <=> error = KeyboardInterrupt
                /\ exitCode = {0} <=> (error = NoError /\ command \in {"monthly", "daily"})
                /\ exitCode = {1} <=> (IsException(error) \/ command = "")
                /\ (exitCode = {0} /\ command = "monthly") =>
                      subsheets.assigned /\ files # <<>>)
    /\ [][Interrupt => (pc' = "exit" /\ exitCode' = {130} /\ error' = KeyboardInterrupt)]_vars

\* the user interrupted the loop over the sections
C9_Witness ==
    /\ pc = "exit"
    /\ exitCode = {130}
    /\ command = "monthly"
    /\ nextSection = 2
    /\ Len(section_ranges) = 2

\* resolve_excel_url leaves its try block with a URL: the download link of
\* the dataset page when both pages were fetched and held their link, the
\* static URL after an HTTP error or a missing link; only the interrupt of
\* the user passes its except clause.  The dataset page is requested with
\* the link the portal page gave.
ResolveExcelUrlFallsBack ==
    [][/\ (pc = "resolve_portal" /\ pc' # pc) =>
             \/ /\ pc' = "resolve_dataset"
                /\ response'.ok /\ response'.link = TOD_URL
                /\ excel_url' = excel_url
             \/ /\ pc' = "download"
                /\ excel_url' = MONTHLY_DATA_EXCEL_URL
                /\ ~response'.ok \/ response'.link = NoValue
             \/ pc' = "exit" /\ exitCode' = {130}
       /\ (pc = "resolve_dataset" /\ pc' # pc) =>
             \/ /\ pc' = "download"
                /\ excel_url' = IF response'.ok /\ response'.link # NoValue
                                THEN response'.link
                                ELSE MONTHLY_DATA_EXCEL_URL
             \/ pc' = "exit" /\ exitCode' = {130}
       /\ (pc \in {"resolve_portal", "resolve_dataset"} /\ response' # response
              /\ response'.url # MONTHLY_DATA_PORTAL_URL) =>
             /\ response.url = MONTHLY_DATA_PORTAL_URL
             /\ response.ok
             /\ response.link = response'.url
             /\ response'.url # NoValue
      ]_vars

\* C10: the resolver of the download URL never fails: each of its two steps
\* either goes on with the link it found or, after an HTTP error or a
\* missing link, ends with the static URL as the URL to download; the
\* dataset page is requested only with the link the portal page gave.
\* (Stated for get_url_dynamic / get_xlsx of the script monthly_data.py.)
C10_ResolverNeverFails ==
    [][/\ (pc = "get_url_dynamic" /\ pc' # pc) =>
             \/ /\ pc' = "get_url_dataset"
                /\ response'.ok /\ response'.link = TOD_URL
             \/ /\ pc' = "get_xlsx"
                /\ excel_url' = MONTHLY_DATA_EXCEL_URL
                /\ ~response'.ok \/ response'.link = NoValue
       /\ (pc = "get_url_dataset" /\ pc' # pc) =>
             /\ pc' = "get_xlsx"
             /\ excel_url' = IF response'.ok /\ response'.link # NoValue
                             THEN response'.link
                             ELSE MONTHLY_DATA_EXCEL_URL
             /\ response'.url = response.link
      ]_vars

----------------------------------------------------------------------------
(* Properties of save_json *)

\* save_json of the cli has written every section
SavedAll == pc = "exit" /\ exitCode = {0} /\ command = "monthly"

\* C11: after save_json has saved a mapping of k sections into an empty
\* output directory, the directory holds exactly k files, one per section,
\* each named after its section (lower case, spaces as underscores, .json)
\* and holding the section's original name as its only key with the
\* section's own records; also for names that differ only in letter case or
\* in space versus underscore.
C11_OneFilePerSection ==
    SavedAll =>
        /\ Len(files) = Len(subsheets.value)
        /\ \A i \in DOMAIN subsheets.value :
              /\ DictHas(files, FileName(subsheets.value[i].key))
              /\ DictGet(files, FileName(subsheets.value[i].key)) =
                    [key     |-> subsheets.value[i].key,
                     records |-> ToRecords(subsheets.value[i].value)]

----------------------------------------------------------------------------
(* Properties of the order of the validation checks *)

\* the workbook was loaded and the run ended with an error of the program
RejectedAfterLoad ==
    /\ pc = "exit"
    /\ spreadsheet # NoBook
    /\ IsException(error)
    /\ section_ranges = <<>>
    /\ nextSection = 0

InvalidStructure(cause) == <<"Invalid Excel file structure: ">> \o cause

\* C12: with HEADER_ROW < DATA_START_ROW the validation never ends with the
\* cause 'Missing header row': the main sheet is present in every loaded
\* workbook, a sheet with at most DATA_START_ROW rows (so every sheet too
\* short to hold the header row) is rejected for its insufficient rows
\* whatever its header row holds, and only a sheet with more rows is
\* rejected for an empty header row.
C12_NeverMissingHeaderRow ==
    /\ HEADER_ROW < DATA_START_ROW
    /\ "Missing header row at position " \notin Range(error.msg)
    /\ \A i \in DOMAIN printed : "Missing header row at position " \notin Range(printed[i])
    /\ spreadsheet # NoBook => MAIN_SHEET \in spreadsheet.sheets
    /\ (RejectedAfterLoad /\ spreadsheet.main.nrows <= DATA_START_ROW) =>
          error.msg = InvalidStructure(
              <<"Sheet has insufficient rows, expected at least ", "4">>)
    /\ (RejectedAfterLoad /\ spreadsheet.main.nrows > DATA_START_ROW) =>
          /\ NoHeaderCell(xlsx_data)
          /\ error.msg = InvalidStructure(<<"No section headers found in row ", "2">>)

\* a sheet too short to hold the header row was rejected for its row count
C12_Witness ==
    /\ RejectedAfterLoad
    /\ spreadsheet.main.nrows <= HEADER_ROW
    /\ error.msg = InvalidStructure(
           <<"Sheet has insufficient rows, expected at least ", "4">>)

----------------------------------------------------------------------------
(* Properties of the two extractors on the same workbook (SpecBoth).  At    *)
(* pc = "legacy_workbook" the unprimed variables hold what the package's    *)
(* class left, the step of LegacyWorkbook gives the outcome of the script's *)
(* class.                                                                   *)

\* the package's class validated the grid and extracted every section
AllExtracted == nextSection >= 1 /\ Len(sections) = Len(section_ranges)

\* the package's class validated the grid and skipped a section
SectionFailed == nextSection >= 1 /\ Len(sections) < Len(section_ranges)

\* the loaded main sheet has a header row without any cell
EmptyHeaderRow ==
    /\ spreadsheet # NoBook
    /\ spreadsheet.main.nrows > HEADER_ROW
    /\ \A j \in 0 .. spreadsheet.main.ncols - 1 :
          spreadsheet.main.cells[HEADER_ROW][j] = NaN

\* the columns the script's class selects for its i-th heading
LegacyColumns(i) ==
    LET sl == get_headings(spreadsheet.main)[i].value
    IN <<0>> \o PyRange(sl.start,
                        IF sl.stop = {} THEN spreadsheet.main.ncols
                        ELSE CHOOSE x \in sl.stop : TRUE)

\* C13: the legacy and the refactored extractor agree on every grid that
\* passes validation and in which every section extracts: same section
\* names, same column selection, same keys and records.  They differ only
\* when something fails: the legacy one aborts on the first failing section
\* where the refactored one skips it, and the legacy one takes an all-empty
\* header row for a workbook with zero sections where the refactored one
\* rejects it.
C13_ExtractorsAgree ==
    [][pc = "legacy_workbook" =>
        LET legacyOk     == pc' = "legacy_save_json"
            refactoredOk == subsheets.assigned
        IN /\ AllExtracted =>
                /\ refactoredOk /\ legacyOk
                /\ subsheets' = subsheets
                /\ Len(get_headings(spreadsheet.main)) = Len(section_ranges)
                /\ \A i \in DOMAIN section_ranges :
                      /\ get_headings(spreadsheet.main)[i].key = section_ranges[i].key
                      /\ LegacyColumns(i) = SectionColumns(section_ranges[i].value)
           /\ SectionFailed =>
                /\ ~legacyOk
                /\ error'.type \in {"ValueError", "IndexError"}
                /\ refactoredOk <=> sections # <<>>
                /\ refactoredOk => subsheets.value = sections
           /\ EmptyHeaderRow =>
                /\ legacyOk /\ subsheets' = [assigned |-> TRUE, value |-> <<>>]
                /\ ~refactoredOk /\ nextSection = 0
           /\ (legacyOk # refactoredOk \/ (legacyOk /\ subsheets' # subsheets)) =>
                SectionFailed \/ EmptyHeaderRow
      ]_vars

\* both extractors returned the same two section tables
C13_Witness ==
    /\ pc = "legacy_save_json"
    /\ AllExtracted
    /\ Len(sections) = 2
    /\ subsheets.value = sections

----------------------------------------------------------------------------
(* Properties of the daily movements scraper *)

DailyEnded == pc = "exit" /\ command = "daily" /\ error # KeyboardInterrupt

TableMissing == page.structure \in {"no_table", "no_thead", "no_tbody"}

\* C14: when the table, its head or its body is missing from the page, the
\* list of movements is empty and the daily command exits with 0; otherwise
\* every body row with at least one cell adds one movement, in page order,
\* rows without cells add none, and a row whose first cell fails date
\* parsing ends the run with exit code 1, the movements of the earlier rows
\* being neither returned nor printed.
C14_DailyAllOrNothing ==
    /\ [](/\ (TableMissing /\ pc \in {"daily_print", "exit"}) => movements = <<>>
          /\ (DailyEnded /\ TableMissing) =>
                /\ exitCode = {0} /\ error = NoError
                /\ printed = << <<"Found ", "0", " vessel movements:">> >>
          /\ (DailyEnded /\ exitCode = {1}) =>
                /\ Len(printed) = 1
                /\ printed[1][1] = "Daily scraper failed: "
          /\ (DailyEnded /\ exitCode = {0}) =>
                /\ page.rows = <<>>
                /\ Len(printed) = 1 + Len(movements)
                /\ \A i \in DOMAIN movements : printed[i + 1] = <<NumStr(i), movements[i]>>)
    /\ [][(pc = "daily_row" /\ page.rows # <<>> /\ ~Interrupt) =>
            LET columns == Head(page.rows) IN
            IF columns = <<>>
            THEN movements' = movements /\ page'.rows = Tail(page.rows) /\ pc' = pc
            ELSE IF DailyStrptime(columns[1]).ok
            THEN /\ Len(movements') = Len(movements) + 1
                 /\ SubSeq(movements', 1, Len(movements)) = movements
                 /\ movements'[Len(movements')] =
                       << [key |-> "Date & Time", value |-> DailyStrptime(columns[1]).value],
                          [key |-> "Vessel", value |-> columns[2]] >>
                 /\ page'.rows = Tail(page.rows) /\ pc' = pc
            ELSE pc' = "exit" /\ exitCode' = {1} /\ error'.type = "ValueError"
                 /\ printed' = << <<"Daily scraper failed: ">> \o error'.msg >>
         ]_vars

\* a row failed date parsing after an earlier row had given a movement
C14_Witness ==
    /\ DailyEnded
    /\ exitCode = {1}
    /\ error.type = "ValueError"
    /\ movements # <<>>
====
